---- MODULE Spec2Model ----
(***************************************************************************)
(* gojson (json-to-struct.go): inference of a Go struct declaration from a *)
(* decoded JSON document.                                                  *)
(*                                                                         *)
(* Strings are sequences of one-character strings, so that splitting,      *)
(* casing and sanitising are computed character by character as the Go     *)
(* code does.  The characters are ASCII: letters, digits, '_' and '-'      *)
(* (a punctuation character, which strings.Title treats as a separator).   *)
(***************************************************************************)
EXTENDS Integers, Sequences, FiniteSets, TLC

VARIABLES
    pc,               \* position of main(), or of the function under check
    interactive,      \* isInteractive(): stdin is a character device
    stdin,            \* the bytes on stdin, as the value they decode to
    jsonStyleString,  \* flag -json-style
    bsonStyleString,  \* flag -bson-style
    jsonExtra,        \* flag -json-extra
    bsonExtra,        \* flag -bson-extra
    jsonStyle,        \* package variable jsonStyle
    bsonStyle,        \* package variable bsonStyle
    stdout,           \* what was printed to os.Stdout
    stderr,           \* what was printed to os.Stderr
    exitCode,         \* -1 while running, then the process's exit status
    generateCalls,    \* number of calls of generate made by main
    value,            \* argument of typeForValue
    typ,              \* result of typeForValue
    prevTyp,          \* the result before the last re-inference
    key,              \* argument of fmtFieldName
    fixUpper,         \* argument of fmtFieldName
    fieldName,        \* result of fmtFieldName
    fieldName2        \* result of fmtFieldName applied to fieldName

vars == <<pc, interactive, stdin, jsonStyleString, bsonStyleString, jsonExtra,
          bsonExtra, jsonStyle, bsonStyle, stdout, stderr, exitCode,
          generateCalls, value, typ, prevTyp, key, fixUpper, fieldName,
          fieldName2>>

(***************************************************************************)
(* Bounds of the model.                                                    *)
(***************************************************************************)
\* longest enumerated JSON key handed to fmtFieldName
MaxKeyLen == 4
\* largest enumerated JSON value handed to typeForValue, in nodes
MaxNodes == 4
\* largest enumerated JSON value on stdin, in nodes
MaxInputNodes == 3

(***************************************************************************)
(* Characters (package unicode, ASCII range).                              *)
(***************************************************************************)
LowerLetters ==
    <<"a","b","c","d","e","f","g","h","i","j","k","l","m",
      "n","o","p","q","r","s","t","u","v","w","x","y","z">>

UpperLetters ==
    <<"A","B","C","D","E","F","G","H","I","J","K","L","M",
      "N","O","P","Q","R","S","T","U","V","W","X","Y","Z">>

DigitChars == <<"0","1","2","3","4","5","6","7","8","9">>

\* the characters in ascending byte order
AsciiOrder == <<" ", "-">> \o DigitChars \o UpperLetters \o <<"_">> \o LowerLetters

Ord(c) == CHOOSE i \in 1..Len(AsciiOrder) : AsciiOrder[i] = c

IsLower(c) == \E i \in 1..Len(LowerLetters) : LowerLetters[i] = c

IsUpper(c) == \E i \in 1..Len(UpperLetters) : UpperLetters[i] = c

IsLetter(c) == IsLower(c) \/ IsUpper(c)

IsDigit(c) == \E i \in 1..Len(DigitChars) : DigitChars[i] = c

ToUpperRune(c) ==
    IF IsLower(c)
    THEN UpperLetters[CHOOSE i \in 1..Len(LowerLetters) : LowerLetters[i] = c]
    ELSE c

ToLowerRune(c) ==
    IF IsUpper(c)
    THEN LowerLetters[CHOOSE i \in 1..Len(UpperLetters) : UpperLetters[i] = c]
    ELSE c

\* strings.isSeparator: ASCII alphanumerics and underscore are not separators
isSeparator(c) == ~(IsDigit(c) \/ IsLetter(c) \/ c = "_")

(***************************************************************************)
(* Package strings.                                                        *)
(***************************************************************************)
ToUpper(s) == [i \in 1..Len(s) |-> ToUpperRune(s[i])]

ToLower(s) == [i \in 1..Len(s) |-> ToLowerRune(s[i])]

\* strings.Title with the case of the first letter flipped instead of raised
TitleFlipsCase(s) ==
    [i \in 1..Len(s) |->
        IF isSeparator(IF i = 1 THEN " " ELSE s[i-1])
        THEN (IF IsUpper(s[i]) THEN ToLowerRune(s[i]) ELSE ToUpperRune(s[i]))
        ELSE s[i]]

\* strings.Title: the rune after a separator (or at the start) goes to title
\* case, every other rune is kept
Title(s) ==
    [i \in 1..Len(s) |->
        IF isSeparator(IF i = 1 THEN " " ELSE s[i-1])
        THEN ToUpperRune(s[i])
        ELSE s[i]]

RECURSIVE Split(_)
\* strings.Split(s, "_"): always at least one part
Split(s) ==
    IF \A i \in 1..Len(s) : s[i] # "_"
    THEN <<s>>
    ELSE LET i == CHOOSE j \in 1..Len(s) :
                     s[j] = "_" /\ \A k \in 1..(j-1) : s[k] # "_"
         IN  <<SubSeq(s, 1, i-1)>> \o Split(SubSeq(s, i+1, Len(s)))

RECURSIVE Join(_)
\* strings.Join(parts, "")
Join(parts) ==
    IF parts = <<>> THEN <<>> ELSE Head(parts) \o Join(Tail(parts))

\* s < t as Go compares strings: bytewise, a proper prefix first
StrLess(s, t) ==
    \E i \in 1..(Len(t)) :
        /\ \A j \in 1..(i-1) : j <= Len(s) /\ s[j] = t[j]
        /\ \/ i = Len(s) + 1
           \/ i <= Len(s) /\ Ord(s[i]) < Ord(t[i])

RECURSIVE Insert(_, _)
Insert(sorted, s) ==
    IF sorted = <<>> THEN <<s>>
    ELSE IF StrLess(s, Head(sorted)) THEN <<s>> \o sorted
    ELSE <<Head(sorted)>> \o Insert(Tail(sorted), s)

RECURSIVE SortStrings(_)
\* sort.Strings
SortStrings(keys) ==
    IF keys = <<>> THEN <<>>
    ELSE Insert(SortStrings(SubSeq(keys, 1, Len(keys) - 1)), keys[Len(keys)])

(***************************************************************************)
(* Styles.                                                                 *)
(***************************************************************************)
StyleUnderscores == "underscores"

StyleCamelCase == "camelcase"

StyleNone == "none"

IsValidStyle(style) ==
    style = StyleUnderscores \/ style = StyleCamelCase \/ style = StyleNone

(***************************************************************************)
(* fmtFieldName and lowerFirst.                                            *)
(***************************************************************************)
uppercaseFixups == { <<"i","d">>, <<"u","r","l">>, <<"d","o","b">> }

lowerFirst(s) ==
    IF s = <<>> THEN <<>> ELSE <<ToLowerRune(s[1])>> \o Tail(s)

\* the runes loop of fmtFieldName: anything but a letter or a digit, and
\* anything but a letter in front, becomes '_'
Sanitize(runes) ==
    [i \in 1..Len(runes) |->
        LET c  == runes[i]
            ok == IF i = 1 THEN IsLetter(c) ELSE IsLetter(c) \/ IsDigit(c)
        IN  IF ok THEN c ELSE "_"]

\* fmtFieldName with the acronym fix-up applied to every part
fmtFieldNameFixesEveryPart(s, fixUp) ==
    LET split  == Split(s)
        parts  == [i \in 1..Len(split) |->
                     IF fixUp /\ ToLower(Title(split[i])) \in uppercaseFixups
                     THEN ToUpper(Title(split[i]))
                     ELSE Title(split[i])]
    IN  Sanitize(Join(parts))

fmtFieldName(s, fixUp) ==
    LET split  == Split(s)
        titled == [i \in 1..Len(split) |-> Title(split[i])]
        last   == titled[Len(titled)]
        parts  == IF Len(titled) > 0 /\ fixUp /\ ToLower(last) \in uppercaseFixups
                  THEN [titled EXCEPT ![Len(titled)] = ToUpper(last)]
                  ELSE titled
    IN  Sanitize(Join(parts))

(***************************************************************************)
(* Decoded JSON values.  A value is [tag, lit, items]: lit is the lexeme   *)
(* of a scalar; items is the elements of an array, or the members of an    *)
(* object in the order in which a range over the Go map visits them (Go    *)
(* leaves that order open, so every order is an input).                    *)
(***************************************************************************)
Null == [tag |-> "null", lit |-> "null", items |-> <<>>]

Bool(l) == [tag |-> "bool", lit |-> l, items |-> <<>>]

Number(l) == [tag |-> "number", lit |-> l, items |-> <<>>]

String(l) == [tag |-> "string", lit |-> l, items |-> <<>>]

Array(elems) == [tag |-> "array", lit |-> "", items |-> elems]

Object(members) == [tag |-> "object", lit |-> "", items |-> members]

Member(k, v) == [key |-> k, val |-> v]

\* stdin bytes that are not a JSON document
Malformed == [tag |-> "malformed", lit |-> "", items |-> <<>>]

\* reflect.TypeOf of what encoding/json decodes into an interface{}
GoType(v) ==
    CASE v.tag = "null"   -> "nil"
      [] v.tag = "bool"   -> "bool"
      [] v.tag = "number" -> "float64"
      [] v.tag = "string" -> "string"
      [] v.tag = "array"  -> "[]interface {}"
      [] v.tag = "object" -> "map[string]interface {}"

\* obj[key]
Lookup(obj, k) ==
    obj.items[CHOOSE i \in 1..Len(obj.items) : obj.items[i].key = k].val

(***************************************************************************)
(* Type expressions.  Every type the program writes is "[]" repeated dims  *)
(* times in front of a base: bool, float64, string, interface{} or a       *)
(* struct with fields.  A field is [key, name, type, tag]; a tag is the    *)
(* entries between the backquotes, each [format, name], in the order       *)
(* written.                                                                *)
(***************************************************************************)
Prim(n) == [dims |-> 0, base |-> n, fields |-> <<>>]

Struct(fs) == [dims |-> 0, base |-> "struct", fields |-> fs]

\* "[]" + t
Slice(t) == [t EXCEPT !.dims = @ + 1]

\* tagFieldName with the camel case taken from the acronym-fixed name
tagFieldNameFixesAcronyms(style, k, extra) ==
    LET base == IF style = StyleUnderscores THEN k
                ELSE IF style = StyleCamelCase
                     THEN lowerFirst(fmtFieldName(k, TRUE))
                     ELSE <<>>
    IN  IF extra # <<>> THEN base \o <<",">> \o extra ELSE base

\* the name written in a tag: the key, or its camel case, and the extra
tagFieldName(style, k, extra) ==
    LET base == IF style = StyleUnderscores THEN k
                ELSE IF style = StyleCamelCase
                     THEN lowerFirst(fmtFieldName(k, FALSE))
                     ELSE <<>>
    IN  IF extra # <<>> THEN base \o <<",">> \o extra ELSE base

\* the tag of the field of key k
fieldTag(k) ==
    IF jsonStyle # StyleNone \/ bsonStyle # StyleNone
    THEN (IF bsonStyle # StyleNone
          THEN <<[format |-> "bson",
                  name |-> tagFieldName(bsonStyle, k, bsonExtra)]>>
          ELSE <<>>)
         \o
         (IF jsonStyle # StyleNone
          THEN <<[format |-> "json",
                  name |-> tagFieldName(jsonStyle, k, jsonExtra)]>>
          ELSE <<>>)
    ELSE <<>>

\* the keys of obj as the range loop collects them, left unsorted
sortedKeysNotSorted(obj) ==
    [i \in 1..Len(obj.items) |-> obj.items[i].key]

\* keys of obj as the range loop collects them, then sort.Strings
sortedKeys(obj) ==
    SortStrings([i \in 1..Len(obj.items) |-> obj.items[i].key])

RECURSIVE typeForValue(_)
RECURSIVE generateTypes(_, _)

\* typeForValue taking the element type from the last element
typeForValueOfLastElement(v) ==
    IF GoType(v) = "[]interface {}"
    THEN LET types == {GoType(v.items[i]) : i \in 1..Len(v.items)}
         IN  IF Cardinality(types) = 1
             THEN Slice(typeForValue(v.items[Len(v.items)]))
             ELSE Slice(Prim("interface{}"))
    ELSE IF GoType(v) = "map[string]interface {}"
    THEN generateTypes(v, 0)
    ELSE IF GoType(v) = "nil"
    THEN Prim("interface{}")
    ELSE Prim(GoType(v))

\* typeForValue taking a zero scalar (false, 0, "") for nil
typeForValueZeroIsNil(v) ==
    IF GoType(v) = "[]interface {}"
    THEN LET types == {GoType(v.items[i]) : i \in 1..Len(v.items)}
         IN  IF Cardinality(types) = 1
             THEN Slice(typeForValue(v.items[1]))
             ELSE Slice(Prim("interface{}"))
    ELSE IF GoType(v) = "map[string]interface {}"
    THEN generateTypes(v, 0)
    ELSE IF GoType(v) = "nil" \/ v.lit \in {"false", "0", ""}
    THEN Prim("interface{}")
    ELSE Prim(GoType(v))

generateTypes(obj, depth) ==
    LET keys == sortedKeys(obj)
    IN  Struct([i \in 1..Len(keys) |->
            LET k == keys[i]
                v == Lookup(obj, k)
                valueType ==
                    CASE GoType(v) = "[]map[string]interface {}" ->
                             Slice(generateTypes(v.items[1], depth + 1))
                      [] GoType(v) = "map[string]interface {}" ->
                             generateTypes(v, depth + 1)
                      [] OTHER -> typeForValue(v)
            IN  [key  |-> k,
                 name |-> fmtFieldName(k, TRUE),
                 type |-> valueType,
                 tag  |-> fieldTag(k)]])

typeForValue(v) ==
    IF GoType(v) = "[]interface {}"
    THEN LET types == {GoType(v.items[i]) : i \in 1..Len(v.items)}
         IN  IF Cardinality(types) = 1
             THEN Slice(typeForValue(v.items[1]))
             ELSE Slice(Prim("interface{}"))
    ELSE IF GoType(v) = "map[string]interface {}"
    THEN generateTypes(v, 0)
    ELSE IF GoType(v) = "nil"
    THEN Prim("interface{}")
    ELSE Prim(GoType(v))

(***************************************************************************)
(* generate.                                                               *)
(***************************************************************************)
\* flag defaults of -name and -pkg
structName == <<"F","o","o">>

pkgName == <<"m","a","i","n">>

IsIdentifier(s) ==
    /\ s # <<>>
    /\ \A i \in 1..Len(s) :
          \/ IsLetter(s[i])
          \/ s[i] = "_"
          \/ i > 1 /\ IsDigit(s[i])

RECURSIVE StructParses(_)
\* go/parser on a struct body: a field line without a name is an embedded
\* field and must then be a type name
StructParses(t) ==
    \A i \in 1..Len(t.fields) :
        LET f == t.fields[i]
        IN  /\ IF f.name = <<>>
               THEN f.type.dims = 0 /\ f.type.base \in {"bool", "float64", "string"}
               ELSE IsIdentifier(f.name)
            /\ f.type.base = "struct" => StructParses(f.type)

\* format.Source on "package P\ntype N struct {...}": nil when it parses
formatSource(src) ==
    IF IsIdentifier(src.pkg) /\ IsIdentifier(src.name) /\ StructParses(src.body)
    THEN "nil"
    ELSE "syntax error"

\* [formatted, err]: formatted is <<>> for nil bytes
generate(input, sName, pName) ==
    IF input.tag = "malformed"
    THEN [formatted |-> <<>>, err |-> "decode error"]
    ELSE LET assemble(result) ==
                 LET src == [pkg |-> pName, name |-> sName,
                             body |-> generateTypes(result, 0)]
                 IN  IF formatSource(src) = "nil"
                     THEN [formatted |-> <<src>>, err |-> "nil"]
                     ELSE [formatted |-> <<>>, err |-> "error formatting"]
         IN  CASE GoType(input) = "map[string]interface {}" ->
                      assemble(input)
               [] GoType(input) = "[]map[string]interface {}" ->
                      IF Len(input.items) > 0
                      THEN assemble(input.items[1])
                      ELSE [formatted |-> <<>>, err |-> "empty array"]
               [] OTHER ->
                      [formatted |-> <<>>, err |-> "unexpected type"]

(***************************************************************************)
(* The inputs enumerated.                                                  *)
(***************************************************************************)
KeyAlphabet == {"i", "d", "D", "_", "1", "-"}

ExampleKeys ==
    { <<"u","s","e","r","_","i","d">>,
      <<"s","i","t","e","_","u","r","l">>,
      <<"f","o","o","_","i","d">>,
      <<"n","a","m","e">>,
      <<"c","r","e","a","t","e","d","_","a","t">>,
      <<"i","d","_","i","d">> }

Keys == UNION {[1..n -> KeyAlphabet] : n \in 0..MaxKeyLen} \cup ExampleKeys

\* keys of the objects on stdin: in byte order "A" < "_" < "a"; "a" and "A"
\* give one field name, "_" gives none
DocKeys == { <<"a">>, <<"A">>, <<"_">> }

\* keys of the objects handed to typeForValue: in byte order "Ab" < "a"
InferKeys == { <<"a">>, <<"A","b">> }

ScalarSamples == {Null, Bool("true"), Number("1"), String("a")}

InputScalars == {Null, Number("1")}

\* the member lists over the values vs, with pairwise distinct keys of K
MemberLists(vs, K) ==
    { [i \in 1..Len(vs) |-> Member(ks[i], vs[i])] :
        ks \in { f \in [1..Len(vs) -> K] :
                   \A i, j \in 1..Len(vs) : i # j => f[i] # f[j] } }

\* the JSON values of n nodes whose elements or members are one of the
\* sequences children
ValuesOver(children, n, S, K) ==
    (IF n = 1 THEN S ELSE {})
    \cup { Array(vs) : vs \in children }
    \cup UNION { { Object(ms) : ms \in MemberLists(vs, K) } : vs \in children }

RECURSIVE ValueTables(_, _, _)
\* [vals, seqs]: vals[m] is the JSON values of exactly m nodes over scalars S
\* and keys K, for m in 1..n; seqs[m+1] is the sequences of values of m
\* nodes in all, for m in 0..n
ValueTables(n, S, K) ==
    IF n = 0 THEN [vals |-> <<>>, seqs |-> << { <<>> } >>]
    ELSE LET t == ValueTables(n - 1, S, K)
             valsN == ValuesOver(t.seqs[n], n, S, K)
             seqsN ==
                 UNION { { <<v>> \o vs :
                              v \in (IF m = n THEN valsN ELSE t.vals[m]),
                              vs \in t.seqs[n - m + 1] } : m \in 1..n }
         IN  [vals |-> Append(t.vals, valsN), seqs |-> Append(t.seqs, seqsN)]

\* the JSON values of at most n nodes
ValuesUpTo(n, S, K) ==
    LET t == ValueTables(n - 1, S, K)
    IN  UNION { t.vals[m] : m \in 1..(n - 1) }
        \cup ValuesOver(t.seqs[n], n, S, K)

ExampleValues ==
    { Array(<<Number("1"), Number("2"), Number("3")>>),
      Array(<<Number("1"), String("a")>>),
      Array(<<Null, Null>>),
      Object(<<Member(<<"u","s","e","r">>,
                 Object(<<Member(<<"n","a","m","e">>, String("a")),
                          Member(<<"i","d">>, Number("1"))>>))>>),
      Object(<<Member(<<"b","i","o">>, Null)>>) }

InferValues == ValuesUpTo(MaxNodes, ScalarSamples, InferKeys) \cup ExampleValues

ExampleInputs ==
    { Array(<<Object(<<Member(<<"a">>, Number("1"))>>),
              Object(<<Member(<<"a">>, Number("2"))>>)>>),
      Array(<<Number("1"), Number("2"), Number("3")>>) }

Inputs ==
    {Malformed} \cup ValuesUpTo(MaxInputNodes, InputScalars, DocKeys)
                \cup ExampleInputs

Styles == {StyleUnderscores, StyleCamelCase, StyleNone}

\* what -json-style and -bson-style may hold: a style, or anything else
StyleStrings == Styles \cup {"bogus"}

Extras == { <<>>, <<"o","m","i","t","e","m","p","t","y">> }

NoType == Prim("")

RECURSIVE Reorderings(_)
\* v with two neighbouring members of one of its objects, at any depth,
\* visited in the other order
Reorderings(v) ==
    IF v.tag \notin {"array", "object"} THEN {}
    ELSE LET n == Len(v.items)
             here ==
                 IF v.tag = "object"
                 THEN { [v EXCEPT !.items =
                            [j \in 1..n |-> IF j = i THEN v.items[i+1]
                                            ELSE IF j = i + 1 THEN v.items[i]
                                            ELSE v.items[j]]] : i \in 1..(n-1) }
                 ELSE {}
             below ==
                 UNION { IF v.tag = "object"
                         THEN { [v EXCEPT !.items[i].val = w] :
                                   w \in Reorderings(v.items[i].val) }
                         ELSE { [v EXCEPT !.items[i] = w] :
                                   w \in Reorderings(v.items[i]) } : i \in 1..n }
         IN  here \cup below

RECURSIVE ZeroValue(_)
\* the zero-value JSON document of a type: every field present under its
\* JSON key with the default of its type
ZeroValue(t) ==
    IF t.dims > 0 THEN Array(<<>>)
    ELSE CASE t.base = "bool"        -> Bool("false")
           [] t.base = "float64"     -> Number("0")
           [] t.base = "string"      -> String("")
           [] t.base = "interface{}" -> Null
           [] t.base = "struct"      ->
                Object([i \in 1..Len(t.fields) |->
                          Member(t.fields[i].key, ZeroValue(t.fields[i].type))])

(***************************************************************************)
(* Spec: the program, main().                                              *)
(***************************************************************************)
\* the variables of the function checks, unused by main
FunctionVarsIdle ==
    /\ value = Null
    /\ typ = NoType
    /\ prevTyp = NoType
    /\ key = <<>>
    /\ fixUpper = FALSE
    /\ fieldName = <<>>
    /\ fieldName2 = <<>>

\* the variables of main, unused by the function checks: flags at their
\* defaults, nothing read or printed
ProcessVarsIdle ==
    /\ interactive = FALSE
    /\ stdin = Null
    /\ jsonStyleString = StyleUnderscores
    /\ bsonStyleString = StyleNone
    /\ stdout = <<>>
    /\ stderr = <<>>
    /\ exitCode = -1
    /\ generateCalls = 0

functionVars == <<value, typ, prevTyp, key, fixUpper, fieldName, fieldName2>>

processVars == <<interactive, stdin, jsonStyleString, bsonStyleString,
                 stdout, stderr, exitCode, generateCalls>>

styleVars == <<jsonStyle, bsonStyle, jsonExtra, bsonExtra>>

Init ==
    /\ pc = "flagParse"
    /\ interactive \in BOOLEAN
    /\ stdin \in Inputs
    /\ jsonStyleString = StyleUnderscores
    /\ bsonStyleString = StyleNone
    /\ jsonExtra = <<>>
    /\ bsonExtra = <<>>
    /\ jsonStyle = StyleUnderscores
    /\ bsonStyle = StyleNone
    /\ stdout = <<>>
    /\ stderr = <<>>
    /\ exitCode = -1
    /\ generateCalls = 0
    /\ FunctionVarsIdle

\* flag.Parse()
FlagParse ==
    /\ pc = "flagParse"
    /\ jsonStyleString' \in StyleStrings
    /\ bsonStyleString' \in StyleStrings
    /\ jsonExtra' \in Extras
    /\ bsonExtra' \in Extras
    /\ pc' = "isInteractive"
    /\ UNCHANGED <<interactive, stdin, jsonStyle, bsonStyle, stdout, stderr,
                   exitCode, generateCalls, functionVars>>

\* if isInteractive() { usage; os.Exit(1) }
CheckInteractive ==
    /\ pc = "isInteractive"
    /\ IF interactive
       THEN /\ stderr' = stderr \o <<"usage", "Expects input on stdin">>
            /\ exitCode' = 1
            /\ pc' = "exited"
       ELSE /\ pc' = "setStyles"
            /\ UNCHANGED <<stderr, exitCode>>
    /\ UNCHANGED <<interactive, stdin, jsonStyleString, bsonStyleString,
                   stdout, generateCalls, styleVars, functionVars>>

\* jsonStyle = Style(*jsonStyleString); bsonStyle = Style(*bsonStyleString)
SetStyles ==
    /\ pc = "setStyles"
    /\ jsonStyle' = jsonStyleString
    /\ bsonStyle' = bsonStyleString
    /\ pc' = "checkStyles"
    /\ UNCHANGED <<processVars, jsonExtra, bsonExtra, functionVars>>

\* the two IsValidStyle checks: each prints and goes on
CheckStyles ==
    /\ pc = "checkStyles"
    /\ stderr' = stderr
                 \o (IF ~IsValidStyle(jsonStyle)
                     THEN <<"Invalid json style">> ELSE <<>>)
                 \o (IF ~IsValidStyle(bsonStyle)
                     THEN <<"Invalid bson style">> ELSE <<>>)
    /\ pc' = "generate"
    /\ UNCHANGED <<interactive, stdin, jsonStyleString, bsonStyleString,
                   stdout, exitCode, generateCalls, styleVars, functionVars>>

\* output, err := generate(os.Stdin, *name, *pkg), then print or exit
Generate ==
    /\ pc = "generate"
    /\ generateCalls' = generateCalls + 1
    /\ LET r == generate(stdin, structName, pkgName)
       IN  IF r.err # "nil"
           THEN /\ stderr' = stderr \o <<"error parsing">>
                /\ exitCode' = 1
                /\ pc' = "exited"
                /\ UNCHANGED stdout
           ELSE /\ stdout' = stdout \o r.formatted
                /\ exitCode' = 0
                /\ pc' = "done"
                /\ UNCHANGED stderr
    /\ UNCHANGED <<interactive, stdin, jsonStyleString, bsonStyleString,
                   styleVars, functionVars>>

Next == FlagParse \/ CheckInteractive \/ SetStyles \/ CheckStyles \/ Generate

Spec == Init /\ [][Next]_vars

(***************************************************************************)
(* SpecInfer: typeForValue on decoded values, under the default styles.    *)
(***************************************************************************)
InitInfer ==
    /\ pc = "typeForValue"
    /\ value \in InferValues
    /\ typ = NoType
    /\ prevTyp = NoType
    /\ key = <<>>
    /\ fixUpper = FALSE
    /\ fieldName = <<>>
    /\ fieldName2 = <<>>
    /\ jsonStyle = StyleUnderscores
    /\ bsonStyle = StyleNone
    /\ jsonExtra = <<>>
    /\ bsonExtra = <<>>
    /\ ProcessVarsIdle

TypeForValue ==
    /\ pc = "typeForValue"
    /\ typ' = typeForValue(value)
    /\ pc' = "typed"
    /\ UNCHANGED <<value, prevTyp, key, fixUpper, fieldName, fieldName2,
                   styleVars, processVars>>

\* typeForValue again on the same value, its maps ranged in another order
TypeForValueReordered ==
    /\ pc \in {"typed", "reordered"}
    /\ value' \in Reorderings(value)
    /\ prevTyp' = typ
    /\ typ' = typeForValue(value')
    /\ pc' = "reordered"
    /\ UNCHANGED <<key, fixUpper, fieldName, fieldName2, styleVars, processVars>>

\* typeForValue on the zero-value document of the record inferred
TypeForZeroValue ==
    /\ pc = "typed"
    /\ value.tag = "object"
    /\ value' = ZeroValue(typ)
    /\ prevTyp' = typ
    /\ typ' = typeForValue(value')
    /\ pc' = "zeroed"
    /\ UNCHANGED <<key, fixUpper, fieldName, fieldName2, styleVars, processVars>>

NextInfer == TypeForValue \/ TypeForValueReordered \/ TypeForZeroValue

SpecInfer == InitInfer /\ [][NextInfer]_vars

(***************************************************************************)
(* SpecName: fmtFieldName on keys.                                         *)
(***************************************************************************)
InitName ==
    /\ pc = "fmtFieldName"
    /\ key \in Keys
    /\ fixUpper \in BOOLEAN
    /\ fieldName = <<>>
    /\ fieldName2 = <<>>
    /\ value = Null
    /\ typ = NoType
    /\ prevTyp = NoType
    /\ jsonStyle = StyleUnderscores
    /\ bsonStyle = StyleNone
    /\ jsonExtra = <<>>
    /\ bsonExtra = <<>>
    /\ ProcessVarsIdle

FmtFieldName ==
    /\ pc = "fmtFieldName"
    /\ fieldName' = fmtFieldName(key, fixUpper)
    /\ pc' = "named"
    /\ UNCHANGED <<key, fixUpper, fieldName2, value, typ, prevTyp, styleVars,
                   processVars>>

\* fmtFieldName on its own result
FmtFieldNameAgain ==
    /\ pc = "named"
    /\ fieldName2' = fmtFieldName(fieldName, fixUpper)
    /\ pc' = "renamed"
    /\ UNCHANGED <<key, fixUpper, fieldName, value, typ, prevTyp, styleVars,
                   processVars>>

NextName == FmtFieldName \/ FmtFieldNameAgain

SpecName == InitName /\ [][NextName]_vars

(***************************************************************************)
(* SpecTag: generateTypes on an object of one key, under every valid style.*)
(***************************************************************************)
InitTag ==
    /\ pc = "generateTypes"
    /\ key \in Keys
    /\ jsonStyle \in Styles
    /\ bsonStyle \in Styles
    /\ jsonExtra \in Extras
    /\ bsonExtra \in Extras
    /\ value = Null
    /\ typ = NoType
    /\ prevTyp = NoType
    /\ fixUpper = TRUE
    /\ fieldName = <<>>
    /\ fieldName2 = <<>>
    /\ ProcessVarsIdle

GenerateTypes ==
    /\ pc = "generateTypes"
    /\ value' = Object(<<Member(key, Number("1"))>>)
    /\ typ' = generateTypes(value', 0)
    /\ pc' = "generated"
    /\ UNCHANGED <<prevTyp, key, fixUpper, fieldName, fieldName2, styleVars,
                   processVars>>

NextTag == GenerateTypes

SpecTag == InitTag /\ [][NextTag]_vars

(***************************************************************************)
(* The claims.                                                             *)
(***************************************************************************)
Created_at == <<"c","r","e","a","t","e","d","_","a","t">>

User_id == <<"u","s","e","r","_","i","d">>

\* C1: generate accepts a top-level non-empty array whose first element is
\* an object o, and gives the declaration it gives for o alone: whenever
\* main has called generate on [o, ...] and generate(o) succeeds, the
\* program has printed the declaration of o and exited with status 0.
C1_ArrayInfersFirstObject ==
    (/\ generateCalls = 1
     /\ stdin.tag = "array"
     /\ Len(stdin.items) > 0
     /\ stdin.items[1].tag = "object"
     /\ generate(stdin.items[1], structName, pkgName).err = "nil")
    => /\ exitCode = 0
       /\ stdout = generate(stdin.items[1], structName, pkgName).formatted

\* C2: for an array, typeForValue gives []interface{} when the array is
\* empty or its elements do not all have one variant tag, and otherwise
\* "[]" before the type of the first element alone.
C2_ArrayTypes ==
    (pc = "typed" /\ value.tag = "array")
    => LET n == Len(value.items)
           mixed == \E i, j \in 1..n : value.items[i].tag # value.items[j].tag
       IN  /\ (n = 0 \/ mixed) => typ = Slice(Prim("interface{}"))
           /\ (n > 0 /\ ~mixed) => typ = Slice(typeForValue(value.items[1]))
           /\ value = Array(<<Number("1"), Number("2"), Number("3")>>)
                 => typ = Slice(Prim("float64"))
           /\ value = Array(<<Number("1"), String("a")>>)
                 => typ = Slice(Prim("interface{}"))
           /\ (n > 0 /\ \A i \in 1..n : value.items[i].tag = "null")
                 => typ = Slice(Prim("interface{}"))
           /\ (n > 0 /\ \A i \in 1..n : value.items[i].tag = "object")
                 => typ = Slice(generateTypes(value.items[1], 0))

\* an array of two objects with different key sets, typed by the first
C2_Witness ==
    /\ pc = "typed"
    /\ value.tag = "array"
    /\ Len(value.items) = 2
    /\ value.items[1].tag = "object"
    /\ value.items[2].tag = "object"
    /\ Len(value.items[1].items) = 1
    /\ Len(value.items[2].items) = 0
    /\ typ.dims = 1
    /\ typ.base = "struct"
    /\ Len(typ.fields) = 1

RECURSIVE FieldsFollowKeys(_, _)
\* every record of t made from an object of v has one field per key of that
\* object, the fields in strictly ascending byte order of their keys
FieldsFollowKeys(v, t) ==
    CASE v.tag = "object" ->
            /\ t.base = "struct"
            /\ Len(t.fields) = Len(v.items)
            /\ \A i \in 1..(Len(t.fields) - 1) :
                   StrLess(t.fields[i].key, t.fields[i+1].key)
            /\ \A i \in 1..Len(t.fields) :
                   \E j \in 1..Len(v.items) :
                       /\ v.items[j].key = t.fields[i].key
                       /\ FieldsFollowKeys(v.items[j].val, t.fields[i].type)
      [] v.tag = "array" /\ t.base = "struct" ->
            FieldsFollowKeys(v.items[1], t)
      [] OTHER -> TRUE

\* C3: in every record inferred, at any depth and for array elements too,
\* the fields are in strictly ascending order of their JSON keys, one field
\* per key; and the record is the same in whatever order the keys of the
\* objects are visited.
C3_FieldsSortedByKey ==
    /\ pc \in {"typed", "reordered", "zeroed"} => FieldsFollowKeys(value, typ)
    /\ pc = "reordered" => typ = prevTyp

\* a nested object of two keys visited in descending order, after a visit
\* in another order
C3_Witness ==
    /\ pc = "reordered"
    /\ value.tag = "object"
    /\ Len(value.items) = 1
    /\ value.items[1].val.tag = "object"
    /\ Len(value.items[1].val.items) = 2
    /\ StrLess(value.items[1].val.items[2].key, value.items[1].val.items[1].key)
    /\ Len(typ.fields[1].type.fields) = 2

\* C4: every error is terminal and leaves no output: once an error has
\* been reported nothing is on stdout, and with an invalid style string
\* generate is never called.
C4_ErrorsLeaveNoOutput ==
    /\ stderr # <<>> => stdout = <<>>
    /\ (~IsValidStyle(jsonStyleString) \/ ~IsValidStyle(bsonStyleString))
           => generateCalls = 0

\* the entries of format fmt in the tag tg
TagEntries(tg, fmt) == { i \in 1..Len(tg) : tg[i].format = fmt }

\* the tag of field f holds for format fmt what style and extra ask for
TagAsStyled(f, fmt, style, extra) ==
    LET suffix == IF extra # <<>> THEN <<",">> \o extra ELSE <<>>
        named(n) == /\ Cardinality(TagEntries(f.tag, fmt)) = 1
                    /\ \A i \in TagEntries(f.tag, fmt) : f.tag[i].name = n \o suffix
    IN  /\ style = StyleNone => TagEntries(f.tag, fmt) = {}
        /\ style = StyleUnderscores => named(f.key)
        /\ style = StyleCamelCase => named(lowerFirst(fmtFieldName(f.key, FALSE)))

\* C5: per format, the underscores style writes the key verbatim, the
\* camelcase style writes fmtFieldName(key, false) with its first letter
\* lowered, the none style leaves the format out of the tag; a non-empty
\* extra follows a comma exactly when the style is not none; json and bson
\* are rendered independently of one another.
C5_TagPerStyle ==
    pc = "generated"
    => LET f == typ.fields[1]
       IN  /\ f.key = key
           /\ TagAsStyled(f, "json", jsonStyle, jsonExtra)
           /\ TagAsStyled(f, "bson", bsonStyle, bsonExtra)
           /\ Len(f.tag) = (IF jsonStyle # StyleNone THEN 1 ELSE 0)
                           + (IF bsonStyle # StyleNone THEN 1 ELSE 0)
           /\ (key = Created_at /\ jsonStyle = StyleCamelCase /\ jsonExtra = <<>>)
                 => \E i \in 1..Len(f.tag) :
                        /\ f.tag[i].format = "json"
                        /\ f.tag[i].name = <<"c","r","e","a","t","e","d","A","t">>
           /\ (key = Created_at /\ jsonStyle = StyleUnderscores /\ jsonExtra = <<>>)
                 => \E i \in 1..Len(f.tag) :
                        /\ f.tag[i].format = "json"
                        /\ f.tag[i].name = Created_at

\* created_at with a camel-case json name and a verbatim bson name with an
\* extra
C5_Witness ==
    /\ pc = "generated"
    /\ key = Created_at
    /\ jsonStyle = StyleCamelCase
    /\ bsonStyle = StyleUnderscores
    /\ jsonExtra = <<>>
    /\ bsonExtra # <<>>
    /\ Len(typ.fields[1].tag) = 2
    /\ typ.fields[1].tag[2].name = <<"c","r","e","a","t","e","d","A","t">>

\* p with its first character in upper case
UpperFirst(p) ==
    IF p = <<>> THEN <<>> ELSE <<ToUpperRune(p[1])>> \o Tail(p)

\* C6: fmtFieldName splits the key on underscores and title-cases each
\* part; with fixUpper the last part alone, exactly when its lower-case form
\* is id, url or dob, is written fully in upper case; no other part is, and
\* without fixUpper none is.  For a key of letters and underscores the
\* name is the parts joined, each with its first letter raised and nothing
\* else changed, but for a fixed-up last part.
C6_AcronymFixup ==
    pc \in {"named", "renamed"}
    => LET parts == Split(key)
           n == Len(parts)
           expected ==
               [i \in 1..n |->
                   IF i = n /\ fixUpper /\ ToLower(parts[i]) \in uppercaseFixups
                   THEN ToUpper(parts[i])
                   ELSE Title(parts[i])]
       IN  /\ fieldName = Sanitize(Join(expected))
           /\ (\A i \in 1..Len(key) : IsLetter(key[i]) \/ key[i] = "_")
                 => fieldName =
                        Join([i \in 1..n |->
                                IF i = n /\ fixUpper
                                         /\ ToLower(parts[i]) \in uppercaseFixups
                                THEN ToUpper(parts[i])
                                ELSE UpperFirst(parts[i])])
           /\ (key = User_id /\ fixUpper)
                 => fieldName = <<"U","s","e","r","I","D">>
           /\ (key = User_id /\ ~fixUpper)
                 => fieldName = <<"U","s","e","r","I","d">>
           /\ (key = <<"s","i","t","e","_","u","r","l">> /\ fixUpper)
                 => fieldName = <<"S","i","t","e","U","R","L">>
           /\ (key = <<"f","o","o","_","i","d">> /\ fixUpper)
                 => fieldName = <<"F","o","o","I","D">>
           /\ key = <<"n","a","m","e">> => fieldName = <<"N","a","m","e">>
           /\ (key = <<"i","d","_","i","d">> /\ fixUpper)
                 => fieldName = <<"I","d","I","D">>

\* user_id named UserID
C6_Witness ==
    /\ pc = "named"
    /\ key = User_id
    /\ fixUpper
    /\ fieldName = <<"U","s","e","r","I","D">>

\* C7: fmtFieldName returns the empty string only for the empty key.
C7_EmptyNameOnlyForEmptyKey ==
    (pc \in {"named", "renamed"} /\ fieldName = <<>>) => key = <<>>

\* C8: without the acronym fix-up, fmtFieldName applied to its own result
\* changes nothing.
C8_Idempotent ==
    (pc = "renamed" /\ ~fixUpper) => fieldName2 = fieldName

\* C8 as amended: without the acronym fix-up, fmtFieldName applied to its
\* own result changes nothing when that result holds no underscore.
C8_IdempotentWithoutPlaceholder ==
    (/\ pc = "renamed"
     /\ ~fixUpper
     /\ \A i \in 1..Len(fieldName) : fieldName[i] # "_")
    => fieldName2 = fieldName

\* created_at named CreatedAt, and CreatedAt named CreatedAt
C8_Witness ==
    /\ pc = "renamed"
    /\ ~fixUpper
    /\ key = Created_at
    /\ fieldName = <<"C","r","e","a","t","e","d","A","t">>
    /\ fieldName2 = fieldName

\* C9: the record inferred from the zero-value document of the record
\* inferred from an object is that record.
C9_RoundTrip ==
    pc = "zeroed" => typ = prevTyp

RECURSIVE OnlyUntypedSlices(_)
\* every slice in t, at any depth, is []interface{}
OnlyUntypedSlices(t) ==
    /\ t.dims > 0 => (t.dims = 1 /\ t.base = "interface{}")
    /\ (t.dims = 0 /\ t.base = "struct")
           => \A i \in 1..Len(t.fields) : OnlyUntypedSlices(t.fields[i].type)

\* C9 as amended: the record inferred from the zero-value document (each
\* field under its JSON key) of the record inferred from an object is that
\* record, when every slice in that record, at any depth, is []interface{}.
C9_RoundTripWithoutTypedSlices ==
    (pc = "zeroed" /\ OnlyUntypedSlices(prevTyp)) => typ = prevTyp

\* a record with a nested record, a scalar field and an []interface{}
\* field inside, inferred again from its zero value
C9_Witness ==
    /\ pc = "zeroed"
    /\ OnlyUntypedSlices(prevTyp)
    /\ typ = prevTyp
    /\ \E i \in 1..Len(typ.fields) :
          /\ typ.fields[i].type.base = "struct"
          /\ typ.fields[i].type.dims = 0
          /\ \E j \in 1..Len(typ.fields[i].type.fields) :
                typ.fields[i].type.fields[j].type.base \in {"bool", "float64", "string"}
          /\ \E j \in 1..Len(typ.fields[i].type.fields) :
                typ.fields[i].type.fields[j].type.dims = 1

RECURSIVE DistinctFieldNames(_)
\* no two fields of one record of t share a field name
DistinctFieldNames(t) ==
    t.base = "struct"
    => /\ \A i, j \in 1..Len(t.fields) :
              i # j => t.fields[i].name # t.fields[j].name
       /\ \A i \in 1..Len(t.fields) : DistinctFieldNames(t.fields[i].type)

\* C10: generate never returns successfully a declaration in which two
\* fields of one record share a field name.
C10_NoDuplicateFieldNames ==
    pc = "done" => \A i \in 1..Len(stdout) : DistinctFieldNames(stdout[i].body)

====
